---- MODULE Spec2Model ----
(***************************************************************************)
(* Registration intake, de-duplication and e-mail confirmation of the      *)
(* tech-fest registration server.                                          *)
(*                                                                         *)
(* Two server variants are modelled:                                       *)
(*   "disk"   - BACKEND/server.js: uploads are written to disk, hashed     *)
(*              with MD5 from the stored path, the spreadsheet is          *)
(*              regenerated at the end of every registration;              *)
(*   "memory" - the in-memory variant: uploads are hashed from the buffer, *)
(*              every failure inside the handler is reported with 400.     *)
(*                                                                         *)
(* Every `await` of a handler is a point where other requests can run, so  *)
(* every store call, the mail send and the export are separate actions.    *)
(***************************************************************************)
EXTENDS Integers, Sequences, FiniteSets, TLC

\* ------------------------------------------------------------------ bounds
\* number of POST /api/register requests, numbered in order of arrival
NumRegister == 2
\* number of GET /api/confirm/:registrationId requests, numbered in order of arrival
NumConfirm == 2

Registers == 1..NumRegister
Confirms == 1..NumConfirm

Variants == {"disk", "memory"}

\* ------------------------------------------------------------ request data
File(name, bytes) == [originalname |-> name, bytes |-> bytes]

\* the form a first registrant submits
BaseForm ==
  [registrationId |-> "id1", event |-> "robo-race", teamName |-> "Alpha",
   email |-> "e1", mobile |-> "m1", aadhar |-> "a1",
   aadharImage |-> File("aadhar1.png", 1), collegeId |-> File("college1.png", 2)]

\* a form that differs from BaseForm in every field and in both documents
OtherForm ==
  [registrationId |-> "id2", event |-> "code-war", teamName |-> "Beta",
   email |-> "e2", mobile |-> "m2", aadhar |-> "a2",
   aadharImage |-> File("aadhar2.png", 3), collegeId |-> File("college2.png", 4)]

Axes == {"registrationId", "event", "teamName", "email", "mobile", "aadhar",
         "aadharBytes", "collegeBytes", "fileNames"}

\* the form that agrees with BaseForm on the axes in S and with OtherForm elsewhere
Mix(S) ==
  LET pick(a, f) == IF a \in S THEN BaseForm[f] ELSE OtherForm[f]
      src(a) == IF a \in S THEN BaseForm ELSE OtherForm
  IN [registrationId |-> pick("registrationId", "registrationId"),
      event |-> pick("event", "event"),
      teamName |-> pick("teamName", "teamName"),
      email |-> pick("email", "email"),
      mobile |-> pick("mobile", "mobile"),
      aadhar |-> pick("aadhar", "aadhar"),
      aadharImage |-> File(src("fileNames").aadharImage.originalname,
                           src("aadharBytes").aadharImage.bytes),
      collegeId |-> File(src("fileNames").collegeId.originalname,
                         src("collegeBytes").collegeId.bytes)]

\* the overlaps with BaseForm that the submitted forms are drawn from
Overlaps ==
  {{}, Axes, {"aadharBytes"}, {"collegeBytes"}, {"event", "teamName"}, {"teamName"},
   {"event"}, {"email"}, {"mobile"}, {"aadhar"}, {"registrationId"}}

\* a form whose Aadhar image is the file BaseForm uploads as college ID
CrossForm == [OtherForm EXCEPT !.aadharImage = File("aadhar2.png", BaseForm.collegeId.bytes)]

Forms == {Mix(S) : S \in Overlaps} \cup {CrossForm}

Ids == {f.registrationId : f \in Forms}

\* what is wrong with the uploaded files of a request, if anything: a file over the
\* size limit, a file of a refused type, a file field left out, a stored upload
\* that cannot be read back for hashing
Faults == {"none", "fileTooLarge", "fileType", "missingFile", "readError"}

\* the number of file fields a request carries
NumFileFields == 2

\* ------------------------------------------------- the request as received
\* A field value of the multipart body is a sequence of characters, or Missing
\* (no sequence of characters) when the body has no such field.
Missing == <<"undefined">>

Digit == {"0", "1", "2", "3", "4", "5", "6", "7", "8", "9"}
Whitespace == {" ", "\t"}

\* length of the Aadhar number
AadharLength == 12
\* bounds of the team size
MinTeamSize == 1
MaxTeamSize == 4

Sevens(n) == [i \in 1..n |-> "7"]

TextFields == {"registrationId", "event", "teamName", "teamLeaderName", "gender",
               "college", "course", "year", "rollno"}

\* a body every validator accepts
ValidBody ==
  [registrationId |-> <<"R", "1">>, event |-> <<"e">>, teamName |-> <<"T">>,
   teamLeaderName |-> <<"L">>, gender |-> <<"f">>, college |-> <<"c">>,
   course |-> <<"b">>, year |-> <<"2">>, rollno |-> <<"9">>,
   email |-> <<"a", "@", "b", ".", "c">>,
   mobile |-> <<"9">> \o Sevens(9),
   aadhar |-> Sevens(AadharLength),
   teamSize |-> <<"2">>]

TextValues == {Missing, <<>>, <<" ">>, <<"\t", " ">>, <<" ", "x", " ">>}

AadharValues ==
  {Missing, <<>>, Sevens(AadharLength - 1), Sevens(AadharLength), Sevens(AadharLength + 1),
   Sevens(AadharLength - 1) \o <<"x">>, <<" ">> \o Sevens(AadharLength - 2) \o <<" ">>,
   Sevens(AadharLength - 2) \o <<" ">>}

TeamSizeValues ==
  {Missing, <<>>, <<"0">>, <<"1">>, <<"2">>, <<"3">>, <<"4">>, <<"5">>, <<"1", "0">>,
   <<"-", "1">>, <<"+", "4">>, <<"0", "4">>, <<"2", ".", "5">>, <<"a", "b", "c">>}

EmailValues == {Missing, <<"a", "b">>, <<"a", "@", "b">>, <<"a", "@", "b", ".", "c">>}

MobileValues ==
  {Missing, Sevens(10), <<"5">> \o Sevens(9), Sevens(9), Sevens(11),
   <<"+", "9", "1">> \o Sevens(10), <<"0">> \o Sevens(10), Sevens(9) \o <<"x">>}

\* the bodies submitted: ValidBody with one field replaced
Bodies ==
  {ValidBody}
  \cup {[ValidBody EXCEPT ![k] = v] : k \in TextFields, v \in TextValues}
  \cup {[ValidBody EXCEPT !.aadhar = v] : v \in AadharValues}
  \cup {[ValidBody EXCEPT !.teamSize = v] : v \in TeamSizeValues}
  \cup {[ValidBody EXCEPT !.email = v] : v \in EmailValues}
  \cup {[ValidBody EXCEPT !.mobile = v] : v \in MobileValues}

\* a file part of the multipart stream: is its type one the fileFilter lets
\* through, is it within the size limit, can the stored copy be read back
FileParts == [okType : BOOLEAN, okSize : BOOLEAN, readable : BOOLEAN]

\* the file parts of a request in the order of the stream: none, one or both of
\* the two slots
Uploads ==
  {<<>>} \cup {<<a>> : a \in FileParts} \cup {<<a, b>> : a, b \in FileParts}

\* req.body and req.files of a request; NoReq for a request whose content is
\* not looked into
NoReq == <<>>
Req(body, files) == <<body, files>>

\* ------------------------------------------------------------------ state
VARIABLES
  variant,   \* which server is running
  store,     \* the registrations collection, in insertion order
  reg,       \* per register request: position in the handler and its locals;
             \* before request 1 is sent, its req is the formData of the form
  conf,      \* per confirm request: position in the handler and its locals
  xlsx       \* exports/registrations.xlsx (disk variant), the spreadsheet last
             \* sent by the export route (in-memory variant)

vars == <<variant, store, reg, conf, xlsx>>

NoRes == [status |-> 0, msg |-> "", field |-> ""]
Res(status, msg) == [status |-> status, msg |-> msg, field |-> ""]

NoHash == 0

\* valid: the body passes the validators; uploads: how many files of the request
\* lie under uploads/; createdAt: the createdAt of the document it built, 0 if none
RegIdle ==
  [pc |-> "idle", req |-> NoReq, form |-> BaseForm, valid |-> TRUE, uploads |-> 0,
   aadharImageHash |-> NoHash, collegeIdHash |-> NoHash,
   existingAadhar |-> FALSE, saved |-> FALSE, createdAt |-> 0, mail |-> "none",
   registrations |-> <<>>, res |-> NoRes]

ConfIdle == [pc |-> "idle", registrationId |-> "", doc |-> 0, res |-> NoRes]

\* ----------------------------------------------------------- pure helpers
\* a digest taken over the file name as well as the bytes
calculateFileHash_byName(file) ==
  1000 + file.bytes + (IF file.originalname \in {"aadhar1.png", "college1.png"} THEN 100 ELSE 0)

\* digest of a file: a function of its bytes alone, equal exactly for equal bytes
calculateFileHash(file) == 1000 + file.bytes

\* the string a validator works on: a missing field counts as the empty string
toString(v) == IF v = Missing THEN <<>> ELSE v

\* .trim(): the value without its leading and trailing whitespace
RECURSIVE TrimLeft(_)
TrimLeft(v) == IF v # <<>> /\ Head(v) \in Whitespace THEN TrimLeft(Tail(v)) ELSE v
RECURSIVE TrimRight(_)
TrimRight(v) ==
  IF v # <<>> /\ v[Len(v)] \in Whitespace THEN TrimRight(SubSeq(v, 1, Len(v) - 1)) ELSE v
Trim(v) == TrimRight(TrimLeft(v))

\* .notEmpty(): the value is not the empty string; whitespace is not ignored
notEmpty(v) == Len(toString(v)) # 0

\* .isLength({ min, max }): the number of characters lies between min and max
isLength(v, min, max) == Len(toString(v)) >= min /\ Len(toString(v)) <= max

AllDigits(v) == \A i \in 1..Len(v) : v[i] \in Digit

\* value of a sequence of decimal digits
DigitValue(c) == CHOOSE n \in 0..9 : <<"0", "1", "2", "3", "4", "5", "6", "7", "8", "9">>[n + 1] = c
RECURSIVE ParseInt(_)
ParseInt(v) == IF v = <<>> THEN 0 ELSE 10 * ParseInt(SubSeq(v, 1, Len(v) - 1)) + DigitValue(v[Len(v)])

\* the digits of a signed integer literal /^[-+]?[0-9]+$/, <<>> if v is none
Unsigned(v) ==
  LET u == IF v # <<>> /\ Head(v) \in {"+", "-"} THEN Tail(v) ELSE v
  IN IF u # <<>> /\ AllDigits(u) THEN u ELSE <<>>

\* a decimal literal /^[-+]?[0-9]+\.[0-9]+$/ split at its point, <<>> if v is none
Decimal(v) ==
  LET u == IF v # <<>> /\ Head(v) \in {"+", "-"} THEN Tail(v) ELSE v
  IN IF \E i \in 2..(Len(u) - 1) :
          /\ u[i] = "." /\ AllDigits(SubSeq(u, 1, i - 1)) /\ AllDigits(SubSeq(u, i + 1, Len(u)))
     THEN LET i == CHOOSE i \in 2..(Len(u) - 1) : u[i] = "."
          IN <<SubSeq(u, 1, i - 1), SubSeq(u, i + 1, Len(u))>>
     ELSE <<>>

\* a JavaScript number as far as the team size needs it: not-a-number, or a value
\* given by its integer part and by whether a fraction follows it
NaN == [isNaN |-> TRUE, int |-> 0, fraction |-> FALSE]
Num(n, fraction) == [isNaN |-> FALSE, int |-> n, fraction |-> fraction]

\* Number(value) of a request field: undefined gives NaN, a blank string 0, an
\* integer or decimal literal (surrounding whitespace ignored) its value, any
\* other text of the catalogue NaN
Number(v) ==
  LET t == Trim(toString(v))
      neg == t # <<>> /\ Head(t) = "-"
      Signed(n) == IF neg THEN 0 - n ELSE n
  IN IF v = Missing THEN NaN
     ELSE IF t = <<>> THEN Num(0, FALSE)
     ELSE IF Unsigned(t) # <<>> THEN Num(Signed(ParseInt(Unsigned(t))), FALSE)
     ELSE IF Decimal(t) # <<>>
       THEN Num(Signed(ParseInt(Decimal(t)[1])), ParseInt(Decimal(t)[2]) # 0)
     ELSE NaN

\* the schema path `teamSize: { type: Number, required: true, min: 1, max: 4 }`
\* as document validation applies it: the value is a number and lies between min
\* and max; a fraction is not looked at
SchemaTeamSize(n) ==
  /\ ~n.isNaN
  /\ n.int >= MinTeamSize
  /\ IF n.fraction THEN n.int < MaxTeamSize ELSE n.int <= MaxTeamSize

\* .isFloat({ min, max }) in the place of .isInt({ min, max })
isInt_isFloat(v, min, max) ==
  LET n == Number(v)
  IN /\ Trim(toString(v)) = toString(v) /\ toString(v) # <<>>
     /\ ~n.isNaN
     /\ n.int >= min
     /\ IF n.fraction THEN n.int < max ELSE n.int <= max

\* the range test left out: any integer literal passes
isInt_noRange(v, min, max) ==
  LET t == toString(v) IN Unsigned(t) # <<>>

\* .isInt({ min, max }): an integer literal whose value lies between min and max
isInt(v, min, max) ==
  LET t == toString(v)
      n == IF Head(t) = "-" THEN 0 - ParseInt(Unsigned(t)) ELSE ParseInt(Unsigned(t))
  IN Unsigned(t) # <<>> /\ n >= min /\ n <= max

\* .isEmail(), reduced to its outline: local part, "@", domain with a dot inside
isEmail(v) ==
  LET t == toString(v) IN
  \E i \in 2..Len(t) :
    /\ t[i] = "@"
    /\ \A j \in 1..Len(t) : t[j] = "@" => j = i
    /\ \E j \in (i + 2)..(Len(t) - 1) : t[j] = "."

\* .matches(/^[6-9][0-9]{9}$/) of the in-memory variant
matchesMobile(v) ==
  LET t == toString(v) IN
  Len(t) = 10 /\ t[1] \in {"6", "7", "8", "9"} /\ AllDigits(t)

\* .isMobilePhone('en-IN'): /^(\+?91|0)?[6789]\d{9}$/
isMobilePhone(v) ==
  LET t == toString(v) IN
  \/ matchesMobile(t)
  \/ Len(t) = 11 /\ t[1] = "0" /\ matchesMobile(Tail(t))
  \/ Len(t) = 12 /\ SubSeq(t, 1, 2) = <<"9", "1">> /\ matchesMobile(SubSeq(t, 3, 12))
  \/ Len(t) = 13 /\ SubSeq(t, 1, 3) = <<"+", "9", "1">> /\ matchesMobile(SubSeq(t, 4, 13))

\* errors.array() of validationResult(req), as the set of the fields that fail
\* their validator chain
validationResult(v, b) ==
  {k \in {"email"} : ~isEmail(b.email)}
  \cup {k \in {"mobile"} : ~(IF v = "memory" THEN matchesMobile(b.mobile) ELSE isMobilePhone(b.mobile))}
  \cup {k \in {"teamName", "teamLeaderName"} : ~notEmpty(Trim(toString(b[k])))}
  \cup {k \in {"aadhar"} : ~isLength(b.aadhar, AadharLength, AadharLength)}
  \cup {k \in {"teamSize"} : ~isInt(b.teamSize, MinTeamSize, MaxTeamSize)}
  \cup {k \in TextFields \ {"teamName", "teamLeaderName"} : ~notEmpty(b[k])}

\* the error the upload middleware ends with: the parts are taken in the order of
\* the stream, each is first put to the fileFilter and then streamed against the
\* size limit, and the first error aborts the upload
RECURSIVE UploadError(_)
UploadError(files) ==
  IF files = <<>> THEN "none"
  ELSE IF ~Head(files).okType THEN "fileType"
  ELSE IF ~Head(files).okSize THEN "fileTooLarge"
  ELSE UploadError(Tail(files))

\* the handler without the `if (!aadharImage || !collegeId)` check
FaultOf_noPresenceCheck(v, files) ==
  IF UploadError(files) # "none" THEN UploadError(files)
  ELSE IF v = "disk" /\ \E i \in 1..Len(files) : ~files[i].readable THEN "readError"
  ELSE "none"

\* calculateFileHash resolving with the digest of what was read when the stream
\* reports an error
FaultOf_readErrorMasked(v, files) ==
  IF UploadError(files) # "none" THEN UploadError(files)
  ELSE IF Len(files) < NumFileFields THEN "missingFile"
  ELSE "none"

\* what is wrong with the files of a request, in the order the route finds out:
\* the upload error, then a slot left empty, then (files hashed from disk) a
\* stored file that cannot be read
FaultOf(v, files) ==
  IF UploadError(files) # "none" THEN UploadError(files)
  ELSE IF Len(files) < NumFileFields THEN "missingFile"
  ELSE IF v = "disk" /\ \E i \in 1..Len(files) : ~files[i].readable THEN "readError"
  ELSE "none"

\* position of the first document with the given registrationId, 0 if none
FindOneById(s, id) ==
  IF \E i \in 1..Len(s) : s[i].registrationId = id
  THEN CHOOSE i \in 1..Len(s) :
         /\ s[i].registrationId = id
         /\ \A j \in 1..(i - 1) : s[j].registrationId # id
  ELSE 0

\* the email path declared without `unique: true`
UniqueIndexes_noEmail(v) ==
  <<{"registrationId"}, {"teamName"}, {"mobile"}, {"aadhar"}>>
  \o (IF v = "disk" THEN <<{"event", "teamName"}>> ELSE <<>>)

\* the teamName path declared without `unique: true`
UniqueIndexes_noTeamName(v) ==
  <<{"registrationId"}, {"email"}, {"mobile"}, {"aadhar"}>>
  \o (IF v = "disk" THEN <<{"event", "teamName"}>> ELSE <<>>)

\* the unique indexes of the collection: the field-level `unique: true` paths in
\* schema order, then the schema-level index() calls
UniqueIndexes(v) ==
  <<{"registrationId"}, {"teamName"}, {"email"}, {"mobile"}, {"aadhar"}>>
  \o (IF v = "disk" THEN <<{"event", "teamName"}>> ELSE <<>>)

\* does document d collide with a stored document on every key of index ix
Violates(s, d, ix) == \E i \in 1..Len(s) : \A k \in ix : s[i][k] = d[k]

\* positions in UniqueIndexes of the indexes the insert of d violates. The E11000
\* error carries the keyPattern of one of them; which one is decided by the order
\* of the server's index catalogue, which the source does not determine
DuplicateKeys(v, s, d) ==
  {n \in 1..Len(UniqueIndexes(v)) : Violates(s, d, UniqueIndexes(v)[n])}

\* Object.keys(error.keyPattern)[0]
FirstKey(ix) ==
  IF ix = {"event", "teamName"} THEN "event" ELSE CHOOSE k \in ix : TRUE

\* Number(teamSize) of a request; a request whose content is not looked into
\* carries the team size of ValidBody
ValidTeamSize == Number(ValidBody.teamSize)

\* the team size of the document is not taken from the request
TeamSizeOf_fixed(r) == ValidTeamSize

TeamSizeOf(r) == IF r.req = NoReq THEN ValidTeamSize ELSE Number(r.req[1].teamSize)

\* the schema with `isConfirmed: { type: Boolean, default: true }`
NewRegistration_confirmedByDefault(r) ==
  [registrationId |-> r.form.registrationId, event |-> r.form.event,
   teamName |-> r.form.teamName, email |-> r.form.email, mobile |-> r.form.mobile,
   aadhar |-> r.form.aadhar, aadharImageHash |-> r.aadharImageHash,
   collegeIdHash |-> r.collegeIdHash, teamSize |-> TeamSizeOf(r),
   createdAt |-> r.createdAt, isConfirmed |-> TRUE]

\* new Registration({...}): the document the handler builds, with the schema
\* defaults createdAt (the time of construction) and isConfirmed = false
NewRegistration(r) ==
  [registrationId |-> r.form.registrationId, event |-> r.form.event,
   teamName |-> r.form.teamName, email |-> r.form.email, mobile |-> r.form.mobile,
   aadhar |-> r.form.aadhar, aadharImageHash |-> r.aadharImageHash,
   collegeIdHash |-> r.collegeIdHash, teamSize |-> TeamSizeOf(r),
   createdAt |-> r.createdAt, isConfirmed |-> FALSE]

\* Date.now() when the document is built, counted in inserts
Now(s) == Len(s) + 1

\* the terminal local state of a register request with response res
Respond(r, res) == [r EXCEPT !.pc = "done", !.res = res]

MsgSuccess == "Registration successful. Please check your email to confirm."
MsgAadharDup == "This Aadhar card image has already been uploaded"
MsgCollegeDup == "This College ID image has already been uploaded"
MsgEitherDup == "This Aadhar card or College ID image has already been uploaded"
MsgTeamDup == "Team is already registered for event"
MsgFilesRequired == "Both Aadhar card and College ID images are required"
MsgFileSize == "File size must be 300KB or less"
MsgFileType == "Only images (jpeg, jpg, png) and PDFs are allowed"
MsgMailFailed == "Failed to send confirmation email"
MsgTransport == "transport error"
MsgValidation == "validation errors"
MsgReadError == "file read error"
MsgConfirmed == "Email confirmed successfully"
MsgNotFound == "Registration not found"
MsgAlreadyConfirmed == "Email already confirmed"
MsgE11000 == "E11000 duplicate key error collection"
\* error.message of a store call that fails for another reason than a unique index
MsgStoreError == "MongoNetworkError: connection closed"
MsgSchema == "Registration validation failed: teamSize"
MsgUnexpected == "An unexpected error occurred during registration"

\* `${field} already exists`; the in-memory variant capitalises the field name
Capitalised ==
  [registrationId |-> "RegistrationId", event |-> "Event", teamName |-> "TeamName",
   email |-> "Email", mobile |-> "Mobile", aadhar |-> "Aadhar"]
MsgExists(v, field) ==
  [status |-> 400, msg |-> "already exists",
   field |-> IF v = "memory" THEN Capitalised[field] ELSE field]

\* the three duplicate lookups of the register handler: does
\* Registration.findOne(query) return a document
ExistingAadhar(s, hash) == \E i \in 1..Len(s) : s[i].aadharImageHash = hash
ExistingCollegeId(s, hash) == \E i \in 1..Len(s) : s[i].collegeIdHash = hash
\* the team lookup querying the event alone
ExistingTeamInEvent_eventOnly(s, event, teamName) ==
  \E i \in 1..Len(s) : s[i].event = event

\* the team lookup querying the team leader's field instead of teamName
ExistingTeamInEvent_wrongField(s, event, teamName) ==
  \E i \in 1..Len(s) : s[i].event = event /\ s[i].email = teamName

ExistingTeamInEvent(s, event, teamName) ==
  \E i \in 1..Len(s) : s[i].event = event /\ s[i].teamName = teamName

\* ------------------------------------------------------------------- Init
Init ==
  /\ variant \in Variants
  /\ store = <<>>
  /\ reg = [q \in Registers |-> RegIdle]
  /\ conf = [k \in Confirms |-> ConfIdle]
  /\ xlsx = [exists |-> FALSE, rows |-> <<>>]

\* ------------------------------------------------- POST /api/register
\* upload middleware, validators, file presence check and hashing, in the order
\* the route runs them: everything the handler does before it first reads the store.
\* f is the submitted form, valid says whether validationResult is empty, fault is
\* what is wrong with the files, present the number of file parts when a slot is
\* empty. The disk variant's upload middleware writes every accepted file under
\* uploads/ and removes what it wrote when it fails; nothing later removes a file
ReceiveAs(q, req, f, valid, fault, present) ==
  LET written == IF variant = "memory" THEN 0
                 ELSE IF fault = "missingFile" THEN present ELSE NumFileFields
      r == [reg[q] EXCEPT !.valid = valid, !.req = req]
      stored == [r EXCEPT !.uploads = written]
  IN
  /\ reg' = [reg EXCEPT ![q] =
       IF fault = "fileTooLarge" THEN Respond(r, Res(400, MsgFileSize))
       ELSE IF fault = "fileType" THEN Respond(r, Res(400, MsgFileType))
       ELSE IF ~valid THEN Respond(stored, Res(400, MsgValidation))
       ELSE IF fault = "missingFile" THEN Respond(stored, Res(400, MsgFilesRequired))
       ELSE IF fault = "readError" THEN Respond(stored, Res(500, MsgReadError))
       ELSE [stored EXCEPT !.pc = "findAadhar",
                           !.form = f,
                           !.aadharImageHash = calculateFileHash(f.aadharImage),
                           !.collegeIdHash = calculateFileHash(f.collegeId)]]
  /\ UNCHANGED <<variant, store, conf, xlsx>>

\* a request arrives; of its content only the outcome of the validators and of
\* the file checks is told apart
Receive(q) ==
  /\ reg[q].pc = "idle"
  /\ q > 1 => reg[q - 1].pc # "idle"
  /\ \E valid \in BOOLEAN, fault \in Faults, present \in 0..(NumFileFields - 1) :
       /\ fault = "readError" => variant = "disk"
       /\ fault # "missingFile" => present = 0
       /\ IF valid /\ fault = "none"
          THEN \E f \in Forms : ReceiveAs(q, NoReq, f, valid, fault, present)
          ELSE ReceiveAs(q, NoReq, reg[q].form, valid, fault, present)

\* the first request arrives with its body and its file parts spelled out
ReceiveRequest ==
  /\ reg[1].pc = "idle"
  /\ \E body \in Bodies, files \in Uploads :
       LET fault == FaultOf(variant, files) IN
       ReceiveAs(1, Req(body, files), BaseForm, validationResult(variant, body) = {},
                 fault, IF fault = "missingFile" THEN Len(files) ELSE 0)

\* existingAadhar = await Registration.findOne({ aadharImageHash })
FindAadhar(q) ==
  /\ reg[q].pc = "findAadhar"
  /\ reg' = [reg EXCEPT ![q].pc = "findCollegeId",
                        ![q].existingAadhar = ExistingAadhar(store, reg[q].aadharImageHash)]
  /\ UNCHANGED <<variant, store, conf, xlsx>>

\* the document is inserted before the duplicate-document rejection is returned
FindCollegeId_saveFirst(q) ==
  /\ reg[q].pc = "findCollegeId"
  /\ LET r == reg[q]
         existingCollegeId == ExistingCollegeId(store, r.collegeIdHash)
         built == [r EXCEPT !.createdAt = Now(store)]
         doc == NewRegistration(built)
         inserted == DuplicateKeys(variant, store, doc) = {}
     IN IF r.existingAadhar \/ existingCollegeId
        THEN /\ store' = IF inserted THEN Append(store, doc) ELSE store
             /\ reg' = [reg EXCEPT ![q] =
                  Respond([(IF inserted THEN built ELSE r) EXCEPT !.saved = inserted],
                          Res(400, IF variant = "memory" THEN MsgEitherDup
                                   ELSE IF r.existingAadhar THEN MsgAadharDup
                                   ELSE MsgCollegeDup))]
        ELSE /\ store' = store
             /\ reg' = [reg EXCEPT ![q].pc = "findTeam"]
  /\ UNCHANGED <<variant, conf, xlsx>>

\* the college ID rejection tested before the Aadhar image rejection
FindCollegeId_collegeFirst(q) ==
  /\ reg[q].pc = "findCollegeId"
  /\ LET r == reg[q]
         existingCollegeId == ExistingCollegeId(store, r.collegeIdHash)
     IN reg' = [reg EXCEPT ![q] =
          IF variant = "disk"
          THEN IF existingCollegeId THEN Respond(r, Res(400, MsgCollegeDup))
               ELSE IF r.existingAadhar THEN Respond(r, Res(400, MsgAadharDup))
               ELSE [r EXCEPT !.pc = "findTeam"]
          ELSE IF r.existingAadhar \/ existingCollegeId
               THEN Respond(r, Res(400, MsgEitherDup))
               ELSE [r EXCEPT !.pc = "findTeam"]]
  /\ UNCHANGED <<variant, store, conf, xlsx>>

\* existingCollegeId = await Registration.findOne({ collegeIdHash }), then the
\* two rejections for a document that was uploaded before
FindCollegeId(q) ==
  /\ reg[q].pc = "findCollegeId"
  /\ LET r == reg[q]
         existingCollegeId == ExistingCollegeId(store, r.collegeIdHash)
     IN reg' = [reg EXCEPT ![q] =
          IF variant = "disk"
          THEN IF r.existingAadhar THEN Respond(r, Res(400, MsgAadharDup))
               ELSE IF existingCollegeId THEN Respond(r, Res(400, MsgCollegeDup))
               ELSE [r EXCEPT !.pc = "findTeam"]
          ELSE IF r.existingAadhar \/ existingCollegeId
               THEN Respond(r, Res(400, MsgEitherDup))
               ELSE [r EXCEPT !.pc = "findTeam"]]
  /\ UNCHANGED <<variant, store, conf, xlsx>>

\* the duplicate team is detected and no response is sent for it
FindTeam_noResponse(q) ==
  /\ reg[q].pc = "findTeam"
  /\ LET r == reg[q] IN
     reg' = [reg EXCEPT ![q] =
          IF ExistingTeamInEvent(store, r.form.event, r.form.teamName)
          THEN [r EXCEPT !.pc = "pending"]
          ELSE [r EXCEPT !.pc = "save"]]
  /\ UNCHANGED <<variant, store, conf, xlsx>>

\* existingTeamInEvent = await Registration.findOne({ event, teamName })
FindTeam(q) ==
  /\ reg[q].pc = "findTeam"
  /\ LET r == reg[q] IN
     reg' = [reg EXCEPT ![q] =
          IF ExistingTeamInEvent(store, r.form.event, r.form.teamName)
          THEN Respond(r, Res(400, MsgTeamDup))
          ELSE [r EXCEPT !.pc = "save"]]
  /\ UNCHANGED <<variant, store, conf, xlsx>>

\* the catch block without the `error.code === 11000` branch: a refused insert is
\* answered like any other failure
Save_noDuplicateBranch(q) ==
  /\ reg[q].pc = "save"
  /\ LET r == reg[q]
         built == [r EXCEPT !.createdAt = Now(store)]
         doc == NewRegistration(built)
         bad == DuplicateKeys(variant, store, doc)
     IN IF bad # {}
        THEN /\ reg' = [reg EXCEPT ![q] =
                  Respond(r, Res(IF variant = "disk" THEN 500 ELSE 400, MsgE11000))]
             /\ store' = store
        ELSE /\ reg' = [reg EXCEPT ![q] = [built EXCEPT !.pc = "sendMail", !.saved = TRUE]]
             /\ store' = Append(store, doc)
  /\ UNCHANGED <<variant, conf, xlsx>>

\* await registration.save(): document validation against the schema, whose
\* failure the catch block answers like any other error, then the insert, refused
\* by a violated unique index with error code 11000, which the catch block
\* answers with `${field} already exists`
Save(q) ==
  /\ reg[q].pc = "save"
  /\ LET r == reg[q]
         built == [r EXCEPT !.createdAt = Now(store)]
         doc == NewRegistration(built)
         bad == DuplicateKeys(variant, store, doc)
     IN IF ~SchemaTeamSize(doc.teamSize)
        THEN /\ reg' = [reg EXCEPT ![q] =
                  Respond(r, Res(IF variant = "disk" THEN 500 ELSE 400, MsgSchema))]
             /\ store' = store
        ELSE IF bad # {}
        THEN /\ \E n \in bad :
                  reg' = [reg EXCEPT ![q] =
                    Respond(r, MsgExists(variant, FirstKey(UniqueIndexes(variant)[n])))]
             /\ store' = store
        ELSE /\ reg' = [reg EXCEPT ![q] = [built EXCEPT !.pc = "sendMail", !.saved = TRUE]]
             /\ store' = Append(store, doc)
  /\ UNCHANGED <<variant, conf, xlsx>>

\* a failed send undoes the insert before the error response
SendMail_rollback(q) ==
  /\ reg[q].pc = "sendMail"
  /\ \E delivered \in BOOLEAN :
       LET r == [reg[q] EXCEPT !.mail = IF delivered THEN "sent" ELSE "failed"] IN
       /\ reg' = [reg EXCEPT ![q] =
            IF delivered
            THEN IF variant = "disk" THEN [r EXCEPT !.pc = "generateExcel"]
                 ELSE Respond(r, Res(200, MsgSuccess))
            ELSE IF variant = "disk" THEN Respond(r, Res(500, MsgMailFailed))
                 ELSE Respond(r, Res(400, MsgTransport))]
       /\ store' = IF delivered THEN store
                   ELSE SelectSeq(store, LAMBDA d : d.registrationId # r.form.registrationId)
  /\ UNCHANGED <<variant, conf, xlsx>>

\* a failed send is logged and the handler carries on to the success response
SendMail_swallow(q) ==
  /\ reg[q].pc = "sendMail"
  /\ \E delivered \in BOOLEAN :
       LET r == [reg[q] EXCEPT !.mail = IF delivered THEN "sent" ELSE "failed"] IN
       reg' = [reg EXCEPT ![q] =
          IF variant = "disk" THEN [r EXCEPT !.pc = "generateExcel"]
          ELSE Respond(r, Res(200, MsgSuccess))]
  /\ UNCHANGED <<variant, store, conf, xlsx>>

\* a failed send is tried again
SendMail_retry(q) ==
  /\ reg[q].pc = "sendMail"
  /\ \E delivered \in BOOLEAN :
       LET r == [reg[q] EXCEPT !.mail = IF delivered THEN "sent" ELSE "failed"] IN
       reg' = [reg EXCEPT ![q] =
          IF delivered
          THEN IF variant = "disk" THEN [r EXCEPT !.pc = "generateExcel"]
               ELSE Respond(r, Res(200, MsgSuccess))
          ELSE r]
  /\ UNCHANGED <<variant, store, conf, xlsx>>

\* await sendConfirmationEmail(...): the transport delivers or fails
SendMail(q) ==
  /\ reg[q].pc = "sendMail"
  /\ \E delivered \in BOOLEAN :
       LET r == [reg[q] EXCEPT !.mail = IF delivered THEN "sent" ELSE "failed"] IN
       reg' = [reg EXCEPT ![q] =
          IF delivered
          THEN IF variant = "disk" THEN [r EXCEPT !.pc = "generateExcel"]
               ELSE Respond(r, Res(200, MsgSuccess))
          ELSE IF variant = "disk" THEN Respond(r, Res(500, MsgMailFailed))
               ELSE Respond(r, Res(400, MsgTransport))]
  /\ UNCHANGED <<variant, store, conf, xlsx>>

\* The rows of the worksheet below its header row, from row 2 on. A row is the
\* registrationId of the record whose values it holds, BlankRow when it holds no
\* value but has a height of its own, EmptyRow when it holds nothing at all.
BlankRow == "blank"
EmptyRow == "empty"

\* worksheet.getRow(rowNum).height = imageHeight: the row is created if the sheet
\* has no such row yet (rowNum is never more than one past the last row)
SetRowHeight(rows, rowNum) ==
  IF rowNum - 1 <= Len(rows)
  THEN [rows EXCEPT ![rowNum - 1] = IF @ = EmptyRow THEN BlankRow ELSE @]
  ELSE Append(rows, BlankRow)

\* worksheet.addRow({ registrationId: ..., ... }): a row after the last row of the
\* sheet, which takes the values whose column keys the sheet knows. The keys are
\* set with worksheet.columns and are not part of a file read back
AddRow(rows, keyed, registrationId) ==
  Append(rows, IF keyed THEN registrationId ELSE EmptyRow)

\* registrations.forEach((reg, index) => ...) from position index + 1 on
RECURSIVE ForEachRegistration(_, _, _, _)
ForEachRegistration(rows, keyed, registrations, index) ==
  IF index >= Len(registrations) THEN rows
  ELSE ForEachRegistration(
         AddRow(SetRowHeight(rows, index + 2), keyed, registrations[index + 1]),
         keyed, registrations, index + 1)

\* the rows a written file keeps: a row with neither values nor height is not
\* written, so the empty rows at the end of the sheet are gone
RECURSIVE WrittenRows(_)
WrittenRows(rows) ==
  IF rows # <<>> /\ rows[Len(rows)] = EmptyRow
  THEN WrittenRows(SubSeq(rows, 1, Len(rows) - 1))
  ELSE rows

\* registrations.forEach((reg) => { worksheet.addRow({...}) }) of the export
\* route, on a new sheet with its columns
RECURSIVE AddRows(_, _)
AddRows(rows, registrations) ==
  IF registrations = <<>> THEN rows
  ELSE AddRows(AddRow(rows, TRUE, Head(registrations)), Tail(registrations))

\* the worksheet generateExcel writes: a new sheet with its columns when the file
\* does not exist, else the sheet read from the file with the rows below the
\* header spliced out; then the loop over the registrations
SheetOf(file, registrations) ==
  WrittenRows(ForEachRegistration(<<>>, ~file.exists, registrations, 0))

\* generateExcel, first half: registrations = await Registration.find().lean();
\* an error is caught and logged inside generateExcel
GenerateExcel(q) ==
  /\ reg[q].pc = "generateExcel"
  /\ \E ok \in BOOLEAN :
       LET r == reg[q]
           found == [i \in 1..Len(store) |-> store[i].registrationId]
       IN reg' = [reg EXCEPT ![q] =
            IF ok /\ Len(found) # 0
            THEN [r EXCEPT !.pc = "writeFile", !.registrations = found]
            ELSE Respond(r, Res(200, MsgSuccess))]
  /\ UNCHANGED <<variant, store, conf, xlsx>>

\* a failed write is not caught inside generateExcel and reaches the handler's
\* catch block
WriteFile_uncaught(q) ==
  /\ reg[q].pc = "writeFile"
  /\ \E ok \in BOOLEAN :
       /\ xlsx' = IF ok THEN [exists |-> TRUE, rows |-> SheetOf(xlsx, reg[q].registrations)]
                  ELSE xlsx
       /\ reg' = [reg EXCEPT ![q] =
            Respond([reg[q] EXCEPT !.registrations = <<>>],
                    IF ok THEN Res(200, MsgSuccess) ELSE Res(500, "write error"))]
  /\ UNCHANGED <<variant, store, conf>>

\* generateExcel, second half: the file is looked for and read, the rows are
\* rebuilt and the workbook is written, taken as one step; the handler then sends
\* the 200 response
WriteFile(q) ==
  /\ reg[q].pc = "writeFile"
  /\ \E ok \in BOOLEAN :
       xlsx' = IF ok THEN [exists |-> TRUE, rows |-> SheetOf(xlsx, reg[q].registrations)]
               ELSE xlsx
  /\ reg' = [reg EXCEPT ![q] =
       Respond([reg[q] EXCEPT !.registrations = <<>>], Res(200, MsgSuccess))]
  /\ UNCHANGED <<variant, store, conf>>

\* a store call the handler awaits (one of the three lookups or the insert) rejects
\* with an error that is no duplicate-key error: the catch block answers with
\* error.message, status 500 in the disk variant and 400 in the in-memory variant;
\* the insert that failed wrote nothing
StoreFails(q) ==
  /\ reg[q].pc \in {"findAadhar", "findCollegeId", "findTeam", "save"}
  /\ reg' = [reg EXCEPT ![q] =
       Respond(reg[q], Res(IF variant = "disk" THEN 500 ELSE 400, MsgStoreError))]
  /\ UNCHANGED <<variant, store, conf, xlsx>>

\* ------------------------------------- GET /api/confirm/:registrationId
\* the handler without the `if (!registration)` rejection: an id that matches
\* nothing is answered like a confirmation
ConfirmFind_noNullCheck(k) ==
  /\ conf[k].pc = "idle"
  /\ k > 1 => conf[k - 1].pc # "idle"
  /\ \E id \in Ids :
       LET i == FindOneById(store, id)
           c == [conf[k] EXCEPT !.registrationId = id]
       IN conf' = [conf EXCEPT ![k] =
            IF i = 0 THEN [c EXCEPT !.pc = "done", !.res = Res(200, MsgConfirmed)]
            ELSE IF store[i].isConfirmed
                 THEN [c EXCEPT !.pc = "done", !.res = Res(400, MsgAlreadyConfirmed)]
                 ELSE [c EXCEPT !.pc = "save", !.doc = i]]
  /\ UNCHANGED <<variant, store, reg, xlsx>>

\* the handler without the `if (registration.isConfirmed)` rejection
ConfirmFind_noConfirmedCheck(k) ==
  /\ conf[k].pc = "idle"
  /\ k > 1 => conf[k - 1].pc # "idle"
  /\ \E id \in Ids :
       LET i == FindOneById(store, id)
           c == [conf[k] EXCEPT !.registrationId = id]
       IN conf' = [conf EXCEPT ![k] =
            IF i = 0 THEN [c EXCEPT !.pc = "done", !.res = Res(404, MsgNotFound)]
            ELSE [c EXCEPT !.pc = "save", !.doc = i]]
  /\ UNCHANGED <<variant, store, reg, xlsx>>

\* registration = await Registration.findOne({ registrationId }) and the two
\* rejections
ConfirmFind(k) ==
  /\ conf[k].pc = "idle"
  /\ k > 1 => conf[k - 1].pc # "idle"
  /\ \E id \in Ids :
       LET i == FindOneById(store, id)
           c == [conf[k] EXCEPT !.registrationId = id]
       IN conf' = [conf EXCEPT ![k] =
            IF i = 0 THEN [c EXCEPT !.pc = "done", !.res = Res(404, MsgNotFound)]
            ELSE IF store[i].isConfirmed
                 THEN [c EXCEPT !.pc = "done", !.res = Res(400, MsgAlreadyConfirmed)]
                 ELSE [c EXCEPT !.pc = "save", !.doc = i]]
  /\ UNCHANGED <<variant, store, reg, xlsx>>

\* the confirmation written with an update that matches every document
ConfirmSave_updateMany(k) ==
  /\ conf[k].pc = "save"
  /\ store' = [i \in 1..Len(store) |-> [store[i] EXCEPT !.isConfirmed = TRUE]]
  /\ conf' = [conf EXCEPT ![k].pc = "done", ![k].res = Res(200, MsgConfirmed)]
  /\ UNCHANGED <<variant, reg, xlsx>>

\* registration.isConfirmed = true; await registration.save()
ConfirmSave(k) ==
  /\ conf[k].pc = "save"
  /\ store' = [store EXCEPT ![conf[k].doc].isConfirmed = TRUE]
  /\ conf' = [conf EXCEPT ![k].pc = "done", ![k].res = Res(200, MsgConfirmed)]
  /\ UNCHANGED <<variant, reg, xlsx>>

\* findOne or save of the confirm handler rejects: the catch block answers 500
\* with error.message and the record is left as it was
ConfirmFails(k) ==
  /\ \/ /\ conf[k].pc = "idle"
        /\ k > 1 => conf[k - 1].pc # "idle"
        /\ \E id \in Ids :
             conf' = [conf EXCEPT ![k] =
               [conf[k] EXCEPT !.registrationId = id, !.pc = "done",
                               !.res = Res(500, MsgStoreError)]]
     \/ /\ conf[k].pc = "save"
        /\ conf' = [conf EXCEPT ![k].pc = "done", ![k].res = Res(500, MsgStoreError)]
  /\ UNCHANGED <<variant, store, reg, xlsx>>

\* the register requests alone
NextRegister ==
  \/ \E q \in Registers : Receive(q)
  \/ \E q \in Registers : FindAadhar(q)
  \/ \E q \in Registers : FindCollegeId(q)
  \/ \E q \in Registers : FindTeam(q)
  \/ \E q \in Registers : Save(q)
  \/ \E q \in Registers : SendMail(q)
  \/ \E q \in Registers : GenerateExcel(q)
  \/ \E q \in Registers : WriteFile(q)

Next ==
  \/ \E q \in Registers : Receive(q)
  \/ \E q \in Registers : FindAadhar(q)
  \/ \E q \in Registers : FindCollegeId(q)
  \/ \E q \in Registers : FindTeam(q)
  \/ \E q \in Registers : Save(q)
  \/ \E q \in Registers : SendMail(q)
  \/ \E q \in Registers : GenerateExcel(q)
  \/ \E q \in Registers : WriteFile(q)
  \/ \E k \in Confirms : ConfirmFind(k)
  \/ \E k \in Confirms : ConfirmSave(k)

Spec == Init /\ [][Next]_vars

\* register requests only, no confirmation link is ever opened
SpecRegister == Init /\ [][NextRegister]_vars

\* register requests processed one after the other: a request is received only
\* when every earlier one has been answered
ReceiveSequential(q) ==
  /\ \A p \in Registers \ {q} : reg[p].pc \in {"idle", "done"}
  /\ Receive(q)

NextSequential ==
  \/ \E q \in Registers : ReceiveSequential(q)
  \/ \E q \in Registers : FindAadhar(q)
  \/ \E q \in Registers : FindCollegeId(q)
  \/ \E q \in Registers : FindTeam(q)
  \/ \E q \in Registers : Save(q)
  \/ \E q \in Registers : SendMail(q)
  \/ \E q \in Registers : GenerateExcel(q)
  \/ \E q \in Registers : WriteFile(q)

SpecSequential == Init /\ [][NextSequential]_vars

\* every request, register or confirm, handled one after the other: a request is
\* taken up only when no other request is in flight
Quiet ==
  /\ \A p \in Registers : reg[p].pc \in {"idle", "done"}
  /\ \A k \in Confirms : conf[k].pc \in {"idle", "done"}

ReceiveSerial(q) == Quiet /\ Receive(q)

ConfirmFindSerial(k) == Quiet /\ ConfirmFind(k)

NextSerial ==
  \/ \E q \in Registers : ReceiveSerial(q)
  \/ \E q \in Registers : FindAadhar(q)
  \/ \E q \in Registers : FindCollegeId(q)
  \/ \E q \in Registers : FindTeam(q)
  \/ \E q \in Registers : Save(q)
  \/ \E q \in Registers : SendMail(q)
  \/ \E q \in Registers : GenerateExcel(q)
  \/ \E q \in Registers : WriteFile(q)
  \/ \E k \in Confirms : ConfirmFindSerial(k)
  \/ \E k \in Confirms : ConfirmSave(k)

SpecSerial == Init /\ [][NextSerial]_vars

\* the store may fail: requests handled one at a time, every store call of a
\* handler either answers or rejects
NextFaulty ==
  \/ NextSerial
  \/ \E q \in Registers : StoreFails(q)
  \/ \E k \in Confirms : Quiet /\ ConfirmFails(k)
  \/ \E k \in Confirms : conf[k].pc = "save" /\ ConfirmFails(k)

SpecFaulty == Init /\ [][NextFaulty]_vars

\* the continuation of a register handler after an await: the awaited store, mail
\* or export call has returned or failed
RegisterStep(q) ==
  \/ FindAadhar(q)
  \/ FindCollegeId(q)
  \/ FindTeam(q)
  \/ Save(q)
  \/ SendMail(q)
  \/ GenerateExcel(q)
  \/ WriteFile(q)
  \/ StoreFails(q)

\* the continuation of a confirm handler after its awaited save
ConfirmStep(k) ==
  \/ ConfirmSave(k)
  \/ conf[k].pc = "save" /\ ConfirmFails(k)

\* every awaited call eventually returns or fails, so every handler that is
\* waiting is eventually resumed; the arrival of a request is not forced
Fairness ==
  /\ \A q \in Registers : WF_vars(RegisterStep(q))
  /\ \A k \in Confirms : WF_vars(ConfirmStep(k))

SpecLive == Init /\ [][NextFaulty]_vars /\ Fairness

\* ---------------------------------------------------- uploads/ on disk
\* the original names and the Date.now() readings the uploaded files come with
UploadNames == {"scan.png", "card.png"}
Clock == {1, 2}
FileFields == <<"aadharImage", "collegeId">>

\* filename of diskStorage: Date.now() + '-' + file.originalname, under uploads/
UniqueName(now, originalname) == <<now, originalname>>

\* a file of the multipart stream as the upload middleware leaves it in
\* req.files[fieldname][0]: stored under path (disk variant) or kept as a buffer
Stored(fieldname, now, file) ==
  [fieldname |-> fieldname, originalname |-> file.originalname, bytes |-> file.bytes,
   path |-> UniqueName(now, file.originalname)]

\* the requests whose files have been uploaded
Uploaded(q) == reg[q].pc # "idle" /\ reg[q].req # NoReq

\* req.files[fieldname][0]
PartOf(q, fieldname) ==
  LET files == reg[q].req[2]
  IN files[CHOOSE i \in 1..Len(files) : files[i].fieldname = fieldname]

\* the Date.now() readings taken so far
Stamps ==
  UNION {{reg[q].req[2][i].path[1] : i \in 1..Len(reg[q].req[2])} :
           q \in {p \in Registers : Uploaded(p)}}

\* the file now stored under a path of uploads/: the last one written there.
\* Requests upload in the order of their numbers, the files of a request in the
\* order of its stream
FileAt(path) ==
  LET writers == {w \in Registers \X (1..NumFileFields) :
                    /\ Uploaded(w[1])
                    /\ w[2] <= Len(reg[w[1]].req[2])
                    /\ reg[w[1]].req[2][w[2]].path = path}
      last == CHOOSE w \in writers :
                \A v \in writers : v[1] < w[1] \/ (v[1] = w[1] /\ v[2] <= w[2])
      part == reg[last[1]].req[2][last[2]]
  IN File(part.originalname, part.bytes)

\* upload middleware of a request with two acceptable files and a valid body:
\* every file is written under its unique name, in the order of the stream, a
\* file already there being overwritten. The forms of different requests differ
\* in every field and in the bytes of both documents
Upload(q) ==
  /\ reg[q].pc = "idle"
  /\ q > 1 => reg[q - 1].pc # "idle"
  /\ \E na, nc \in UploadNames, t1, t2 \in Clock, first \in 1..NumFileFields :
       LET base == IF q = 1 THEN BaseForm ELSE OtherForm
           f == [base EXCEPT !.aadharImage.originalname = na,
                             !.collegeId.originalname = nc]
           fa(now) == Stored("aadharImage", now, f.aadharImage)
           fc(now) == Stored("collegeId", now, f.collegeId)
           files == IF first = 1 THEN <<fa(t1), fc(t2)>> ELSE <<fc(t1), fa(t2)>>
       IN /\ t1 <= t2
          /\ \A t \in Stamps : t <= t1
          /\ reg' = [reg EXCEPT ![q] =
               [reg[q] EXCEPT !.pc = "hash", !.req = Req(ValidBody, files),
                              !.uploads = IF variant = "disk" THEN NumFileFields ELSE 0]]
  /\ UNCHANGED <<variant, store, conf, xlsx>>

\* aadharImageHash = await calculateFileHash(aadharImage); collegeIdHash = await
\* calculateFileHash(collegeId): of the file found under the path of the slot
\* (disk variant), of the buffer of the slot (in-memory variant)
Hash(q) ==
  /\ reg[q].pc = "hash"
  /\ LET a == PartOf(q, "aadharImage")
         c == PartOf(q, "collegeId")
         base == IF q = 1 THEN BaseForm ELSE OtherForm
         Read(part) == IF variant = "disk" THEN FileAt(part.path)
                       ELSE File(part.originalname, part.bytes)
     IN reg' = [reg EXCEPT ![q] =
          [reg[q] EXCEPT !.pc = "findAadhar",
                         !.form = [base EXCEPT !.aadharImage = File(a.originalname, a.bytes),
                                               !.collegeId = File(c.originalname, c.bytes)],
                         !.aadharImageHash = calculateFileHash(Read(a)),
                         !.collegeIdHash = calculateFileHash(Read(c))]]
  /\ UNCHANGED <<variant, store, conf, xlsx>>

\* register requests whose files are followed through uploads/
NextUploads ==
  \/ \E q \in Registers : Upload(q)
  \/ \E q \in Registers : Hash(q)
  \/ \E q \in Registers : FindAadhar(q)
  \/ \E q \in Registers : FindCollegeId(q)
  \/ \E q \in Registers : FindTeam(q)
  \/ \E q \in Registers : Save(q)
  \/ \E q \in Registers : SendMail(q)
  \/ \E q \in Registers : GenerateExcel(q)
  \/ \E q \in Registers : WriteFile(q)

SpecUploads == Init /\ [][NextUploads]_vars

\* GET /api/export-excel of the in-memory variant: the records are read and a new
\* workbook with one added row per record is streamed to the client; with no
\* records (404) or with a failure (500) no spreadsheet is sent
ExportExcel ==
  /\ variant = "memory"
  /\ Len(store) # 0
  /\ xlsx' = [exists |-> TRUE,
              rows |-> AddRows(<<>>, [i \in 1..Len(store) |-> store[i].registrationId])]
  /\ UNCHANGED <<variant, store, reg, conf>>

\* register requests one after the other, and exports
NextExport ==
  \/ NextSequential
  \/ ExportExcel

SpecExport == Init /\ [][NextExport]_vars

\* one request, received with its content spelled out, and its handler
NextIntake ==
  \/ ReceiveRequest
  \/ \E q \in Registers : FindAadhar(q)
  \/ \E q \in Registers : FindCollegeId(q)
  \/ \E q \in Registers : FindTeam(q)
  \/ \E q \in Registers : Save(q)
  \/ \E q \in Registers : SendMail(q)
  \/ \E q \in Registers : GenerateExcel(q)
  \/ \E q \in Registers : WriteFile(q)

SpecIntake == Init /\ [][NextIntake]_vars

\* ------------------------------------------------ the registration form
\* The form of Registration.jsx, followed from its mounting to its first
\* submission. Until request 1 is sent, reg[1].req holds formData as
\* Req(text fields, <<aadharImage, collegeId>>); handleSubmit sends it as it is.
MAX_FILE_SIZE == 300000

\* a file slot that holds no file
Null == [none |-> "null"]
Undefined == [none |-> "undefined"]

\* the files a user picks or drops, told apart by their size, and the FileList of
\* a change or drop event: empty, or with the picked file first
FileSizes == {1, MAX_FILE_SIZE, MAX_FILE_SIZE + 1}
BrowserFiles == [size : FileSizes]
FileLists == {<<>>} \cup {<<f>> : f \in BrowserFiles}

\* files[0]
FirstFile(files) == IF files = <<>> THEN Undefined ELSE files[1]

\* what the user types into a text field: nothing, or a value of the body below
FilledBody == [ValidBody EXCEPT !.email = <<"a", "@", "b", ".", "c", "d">>]
TypedFields == DOMAIN ValidBody \ {"registrationId"}

\* useState({ registrationId: uuidv4(), event: '', ..., aadharImage: null, collegeId: null })
InitialFormData ==
  Req([k \in DOMAIN ValidBody |-> IF k = "registrationId" THEN ValidBody[k] ELSE <<>>],
      <<Null, Null>>)

Slot(name) == CHOOSE i \in 1..NumFileFields : FileFields[i] = name

\* formData of the form while it is filled in
Editing == reg[1].pc = "idle" /\ reg[1].req # NoReq

\* setFormData(data)
SetFormData(data) ==
  /\ reg' = [reg EXCEPT ![1].req = data]
  /\ UNCHANGED <<variant, store, conf, xlsx>>

\* the component is mounted
Mount ==
  /\ reg[1].pc = "idle" /\ reg[1].req = NoReq
  /\ SetFormData(InitialFormData)

\* setFormData({ ...formData, [name]: file }) for a file slot
WithFile(data, name, file) == Req(data[1], [data[2] EXCEPT ![Slot(name)] = file])

\* handleDrop without the test against MAX_FILE_SIZE
HandleDrop_noSizeCheck ==
  /\ Editing
  /\ \E i \in 1..NumFileFields, files \in FileLists :
       LET file == FirstFile(files) IN
       IF file = Undefined THEN UNCHANGED vars
       ELSE SetFormData(WithFile(reg[1].req, FileFields[i], file))

\* handleChange: a file input hands over its FileList, whose first file is kept
\* unless it is over the limit; any other input hands over its value
HandleChange ==
  /\ Editing
  /\ \/ \E i \in 1..NumFileFields, files \in FileLists :
          LET file == FirstFile(files) IN
          IF file # Undefined /\ file.size > MAX_FILE_SIZE THEN UNCHANGED vars
          ELSE SetFormData(WithFile(reg[1].req, FileFields[i], file))
     \/ \E name \in TypedFields : \E value \in {<<>>, FilledBody[name]} :
          SetFormData(Req([reg[1].req[1] EXCEPT ![name] = value], reg[1].req[2]))

\* handleDrop(e, name): the first dropped file, if there is one, is kept unless
\* it is over the limit
HandleDrop ==
  /\ Editing
  /\ \E i \in 1..NumFileFields, files \in FileLists :
       LET file == FirstFile(files) IN
       IF file = Undefined THEN UNCHANGED vars
       ELSE IF file.size > MAX_FILE_SIZE THEN UNCHANGED vars
       ELSE SetFormData(WithFile(reg[1].req, FileFields[i], file))

\* /^[\w-.]+@([\w-]+\.)+[\w-]{2,4}$/ on the characters of the catalogue
matchesEmail(v) ==
  \E i \in 2..Len(v), j \in 1..Len(v) :
    /\ v[i] = "@" /\ v[j] = "." /\ j > i + 1
    /\ \A k \in 1..Len(v) : v[k] = "@" => k = i
    /\ \A k \in 1..Len(v) : v[k] \notin Whitespace
    /\ \A k \in (i + 1)..(Len(v) - 1) : v[k] = "." => v[k + 1] # "."
    /\ v[1] # "." \/ i > 2
    /\ \A k \in (j + 1)..Len(v) : v[k] # "."
    /\ Len(v) - j \in 2..4

\* the fields validateForm reports: an empty or blank text field, an email, mobile
\* or aadhar that does not match its pattern, a team size that is empty or that
\* compares below 1 or above 4, a file slot that holds no file
validateForm(data) ==
  LET b == data[1]
      n == Number(b.teamSize)
  IN {k \in {"event", "gender", "college", "course", "year"} : b[k] = <<>>}
     \cup {k \in {"teamName", "teamLeaderName", "rollno"} : Trim(b[k]) = <<>>}
     \cup {k \in {"email"} : ~matchesEmail(b.email)}
     \cup {k \in {"mobile"} : ~matchesMobile(b.mobile)}
     \cup {k \in {"aadhar"} : ~(Len(b.aadhar) = AadharLength /\ AllDigits(b.aadhar))}
     \cup {k \in {"teamSize"} :
             \/ b.teamSize = <<>>
             \/ ~n.isNaN /\ n.int < MinTeamSize
             \/ ~n.isNaN /\ (n.int > MaxTeamSize \/ (n.int = MaxTeamSize /\ n.fraction))}
     \cup {FileFields[i] : i \in {j \in 1..NumFileFields : data[2][j] \in {Null, Undefined}}}

\* the file parts of the request as the upload middleware sees them
PartsOf(files) ==
  [i \in 1..Len(files) |->
     [okType |-> TRUE, okSize |-> files[i].size <= MAX_FILE_SIZE, readable |-> TRUE]]

\* handleSubmit: nothing is sent unless validateForm finds no error; then every
\* entry of formData goes into the multipart body of POST /api/register, which
\* the server takes up as request 1
HandleSubmit ==
  /\ Editing
  /\ IF validateForm(reg[1].req) # {} THEN UNCHANGED vars
     ELSE LET fault == FaultOf(variant, PartsOf(reg[1].req[2])) IN
          ReceiveAs(1, reg[1].req, BaseForm,
                    validationResult(variant, reg[1].req[1]) = {}, fault, 0)

\* the form and the handler of the request it sends
NextFrontend ==
  \/ Mount
  \/ HandleChange
  \/ HandleDrop
  \/ HandleSubmit
  \/ \E q \in Registers : FindAadhar(q)
  \/ \E q \in Registers : FindCollegeId(q)
  \/ \E q \in Registers : FindTeam(q)
  \/ \E q \in Registers : Save(q)
  \/ \E q \in Registers : SendMail(q)
  \/ \E q \in Registers : GenerateExcel(q)
  \/ \E q \in Registers : WriteFile(q)

SpecFrontend == Init /\ [][NextFrontend]_vars

TypeOK ==
  /\ variant \in Variants
  /\ \A q \in Registers : reg[q].form \in Forms
  /\ Len(store) <= NumRegister

\* ------------------------------------------------------------ vocabulary
\* the request got past upload, validation and the file check and was hashed
Hashed(q) == reg[q].aadharImageHash # NoHash

Done(q) == reg[q].pc = "done"

\* the request's insert succeeded
Saved(q) == reg[q].saved

Succeeded(q) == reg[q].res = Res(200, MsgSuccess)

UniqueFields == {"registrationId", "teamName", "email", "mobile", "aadhar"}

OtherFieldsDistinct(f, g) ==
  /\ \A k \in UniqueFields : f[k] # g[k]
  /\ f.event # g.event

DuplicateDocument == {Res(400, MsgAadharDup), Res(400, MsgCollegeDup), Res(400, MsgEitherDup)}
DuplicateTeam == {Res(400, MsgTeamDup)}

\* the document request q inserts, as it is at creation
Record(q) == NewRegistration(reg[q])

\* ---------------------------------------------------------------- claims

\* C1: no two stored records share the registrationId, the teamName, the email,
\* the mobile or the aadhar, whatever the interleaving of register requests.
C1_FiveFieldsUnique ==
  \A i, j \in 1..Len(store) :
    i # j => \A k \in UniqueFields : store[i][k] # store[j][k]

\* two records are stored
C1_Witness == Len(store) >= 2

\* C2 (as claimed): of two concurrent requests with a byte-identical document and
\* all other fields distinct, at most one persists a record and at most one gets 200.
C2_SameDocumentAtMostOne ==
  \A p, q \in Registers :
    ( /\ p # q
      /\ Hashed(p) /\ Hashed(q)
      /\ \/ reg[p].form.aadharImage.bytes = reg[q].form.aadharImage.bytes
         \/ reg[p].form.collegeId.bytes = reg[q].form.collegeId.bytes
      /\ OtherFieldsDistinct(reg[p].form, reg[q].form) )
    => /\ ~(Saved(p) /\ Saved(q))
       /\ ~(Succeeded(p) /\ Succeeded(q))

\* C3: of two requests with the same teamName at most one insert succeeds, at most
\* one record with that teamName exists and at most one of them gets 200.
C3_SameTeamNameAtMostOne ==
  \A p, q \in Registers :
    (p # q /\ Hashed(p) /\ Hashed(q) /\ reg[p].form.teamName = reg[q].form.teamName)
    => /\ ~(Saved(p) /\ Saved(q))
       /\ ~(Succeeded(p) /\ Succeeded(q))
       /\ Cardinality({i \in 1..Len(store) : store[i].teamName = reg[p].form.teamName}) <= 1

\* both requests passed the (event, teamName) pre-check, one insert succeeded and
\* the other was refused by the unique index
C3_Witness ==
  \E p, q \in Registers :
    /\ p # q
    /\ reg[p].form.teamName = reg[q].form.teamName
    /\ reg[p].form.event = reg[q].form.event
    /\ Saved(p)
    /\ Done(q) /\ reg[q].res.msg = "already exists"

\* C4 (as claimed): of the confirm requests on one record exactly one returns 200,
\* every other one is rejected.
C4_OneConfirmation ==
  \A k, l \in Confirms :
    (k # l /\ conf[k].registrationId = conf[l].registrationId)
    => ~(conf[k].res = Res(200, MsgConfirmed) /\ conf[l].res = Res(200, MsgConfirmed))

\* C5 (as claimed): each new hash is checked against both hash columns, so no hash
\* value occurs in two different records in either column.
C5_NoHashInTwoRecords ==
  \A i, j \in 1..Len(store) :
    i # j => {store[i].aadharImageHash, store[i].collegeIdHash}
             \cap {store[j].aadharImageHash, store[j].collegeIdHash} = {}

\* C6: processed one after the other, with byte-identical aadharImage content under
\* different filenames and every other field different, the first request is
\* persisted (and answered 200 when its mail went out) and the second is rejected
\* with 400 as a duplicate document and persists nothing.
C6_SecondIsDuplicateDocument ==
  \A p, q \in Registers :
    ( /\ p < q
      /\ Hashed(p) /\ Hashed(q)
      /\ reg[p].form.aadharImage.bytes = reg[q].form.aadharImage.bytes
      /\ reg[p].form.aadharImage.originalname # reg[q].form.aadharImage.originalname
      /\ OtherFieldsDistinct(reg[p].form, reg[q].form) )
    => /\ (p = 1 /\ Done(p)) => (Saved(p) /\ (reg[p].mail = "sent" => Succeeded(p)))
       /\ (Saved(p) /\ Done(q))
          => /\ reg[q].res \in {Res(400, MsgAadharDup), Res(400, MsgEitherDup)}
             /\ ~Saved(q)

C6_Witness ==
  \E p, q \in Registers :
    /\ p < q
    /\ reg[p].form.aadharImage.bytes = reg[q].form.aadharImage.bytes
    /\ reg[p].form.aadharImage.originalname # reg[q].form.aadharImage.originalname
    /\ OtherFieldsDistinct(reg[p].form, reg[q].form)
    /\ Succeeded(p)
    /\ Done(q) /\ reg[q].res \in DuplicateDocument

\* C7: processed one after the other with the same event and teamName, the second
\* request is rejected with 400 and persists nothing; the rejection is DuplicateTeam
\* whenever its two documents were not uploaded by an earlier stored request, also
\* when every other field differs from the first.
C7_SecondIsDuplicateTeam ==
  \A p, q \in Registers :
    ( /\ p < q
      /\ Saved(p)
      /\ Hashed(q) /\ Done(q)
      /\ reg[p].form.event = reg[q].form.event
      /\ reg[p].form.teamName = reg[q].form.teamName )
    => /\ reg[q].res.status = 400
       /\ ~Saved(q)
       /\ (\A o \in Registers :
             (o < q /\ Saved(o))
             => /\ reg[o].aadharImageHash # reg[q].aadharImageHash
                /\ reg[o].collegeIdHash # reg[q].collegeIdHash)
          => reg[q].res \in DuplicateTeam

C7_Witness ==
  \E p, q \in Registers :
    /\ p < q
    /\ Saved(p)
    /\ reg[p].form.event = reg[q].form.event
    /\ reg[p].form.teamName = reg[q].form.teamName
    /\ \A k \in UniqueFields \ {"teamName"} : reg[p].form[k] # reg[q].form[k]
    /\ reg[p].form.aadharImage.bytes # reg[q].form.aadharImage.bytes
    /\ reg[p].form.collegeId.bytes # reg[q].form.collegeId.bytes
    /\ Done(q) /\ reg[q].res \in DuplicateTeam

\* C8: a request rejected by the duplicate check (Aadhar image, college ID or
\* (event, teamName)) has written no record and no mail was sent for it: the store
\* holds exactly the records of the requests whose insert succeeded.
C8_DuplicateRejectionNoEffect ==
  /\ \A q \in Registers :
       reg[q].res \in DuplicateDocument \cup DuplicateTeam
       => ~Saved(q) /\ reg[q].mail = "none"
  /\ Len(store) = Cardinality({q \in Registers : Saved(q)})

C8_Witness ==
  /\ Len(store) >= 1
  /\ \E q \in Registers : Done(q) /\ reg[q].res \in DuplicateDocument \cup DuplicateTeam

\* C9: when the notification of a persisted record fails, the record stays in the
\* store with the values it was created with and isConfirmed = FALSE.
C9_RecordSurvivesMailFailure ==
  \A q \in Registers :
    reg[q].mail = "failed" => \E i \in 1..Len(store) : store[i] = Record(q)

C9_Witness ==
  \E q \in Registers :
    /\ Done(q) /\ reg[q].mail = "failed"
    /\ \E i \in 1..Len(store) : store[i] = Record(q) /\ ~store[i].isConfirmed

\* C10: a request whose notification failed is never answered with the 200
\* 'Registration successful' response that a delivered notification leads to.
C10_MailFailureIsNotSuccess ==
  \A q \in Registers :
    /\ (Done(q) /\ reg[q].mail = "failed")
       => (reg[q].res.status # 200 /\ reg[q].res.msg # MsgSuccess)
    /\ Succeeded(q) => reg[q].mail = "sent"

C10_Witness ==
  \E p, q \in Registers :
    /\ Done(p) /\ reg[p].mail = "failed" /\ reg[p].res.status \in {400, 500}
    /\ Succeeded(q) /\ reg[q].mail = "sent"

\* C11: an insert that passed the pre-checks and is refused by a unique index ends
\* the request with a 400 '<field> already exists' response naming a field, never
\* with 200 or 500, and writes no record.
C11_RefusedInsertIs400 ==
  [][\A q \in Registers :
       ( /\ reg[q].pc = "save" /\ reg'[q].pc # "save"
         /\ DuplicateKeys(variant, store, NewRegistration(reg[q])) # {} )
       => /\ reg'[q].pc = "done"
          /\ reg'[q].res.status = 400
          /\ reg'[q].res.msg = "already exists"
          /\ \E k \in DOMAIN Capitalised : reg'[q].res.field \in {k, Capitalised[k]}
          /\ ~reg'[q].saved
          /\ store' = store]_vars

\* a request got through the three lookups and its insert was refused
C11_Witness ==
  \E q \in Registers :
    /\ Done(q) /\ Hashed(q) /\ ~Saved(q)
    /\ reg[q].res.status = 400 /\ reg[q].res.field # ""
    /\ Len(store) >= 1

\* C12 (as claimed): the field named by '<field> already exists' is one of
\* registrationId, teamName, email, mobile, aadhar, and the submitted value of that
\* field equals its value in a stored record.
C12_NamedFieldConflicts ==
  \A q \in Registers :
    reg[q].res.msg = "already exists"
    => \E k \in UniqueFields :
         /\ reg[q].res.field \in {k, Capitalised[k]}
         /\ \E i \in 1..Len(store) : store[i][k] = reg[q].form[k]

\* C13: of two confirm calls on one record made one after the other, the first finds
\* the fresh record unconfirmed, sets isConfirmed and returns 200; the second returns
\* 400 'Email already confirmed' and the record stays as it was created, confirmed.
C13_SecondConfirmIsRejected ==
  /\ [](\A k, l \in Confirms :
         ( /\ k < l
           /\ conf[k].registrationId = conf[l].registrationId
           /\ conf[k].res = Res(200, MsgConfirmed)
           /\ conf[l].pc = "done" )
         => /\ conf[l].res = Res(400, MsgAlreadyConfirmed)
            /\ \E i \in 1..Len(store), q \in Registers :
                 /\ store[i].registrationId = conf[l].registrationId
                 /\ store[i] = [Record(q) EXCEPT !.isConfirmed = TRUE])
  /\ [][\A k \in Confirms :
         /\ (conf[k].pc = "idle" /\ conf'[k].pc # "idle")
            => LET i == FindOneById(store, conf'[k].registrationId) IN
               (i # 0 /\ ~store[i].isConfirmed) => conf'[k].pc = "save"
         /\ (conf[k].pc = "save" /\ conf'[k].pc # "save")
            => /\ conf'[k].res = Res(200, MsgConfirmed)
               /\ store'[FindOneById(store, conf[k].registrationId)].isConfirmed]_vars

C13_Witness ==
  \E k, l \in Confirms :
    /\ k < l
    /\ conf[k].registrationId = conf[l].registrationId
    /\ conf[k].res = Res(200, MsgConfirmed)
    /\ conf[l].res = Res(400, MsgAlreadyConfirmed)

\* C14: a confirm call whose id matches no stored record is answered 404
\* 'Registration not found' and changes nothing: no record is created and no field
\* of any record changes.
C14_UnknownIdIsNotFound ==
  [][\A k \in Confirms :
       ( /\ conf[k].pc = "idle" /\ conf'[k].pc # "idle"
         /\ \A i \in 1..Len(store) : store[i].registrationId # conf'[k].registrationId )
       => /\ conf'[k].pc = "done"
          /\ conf'[k].res = Res(404, MsgNotFound)
          /\ store' = store
          /\ xlsx' = xlsx]_vars

\* an id that no stored record has was looked up while a record was stored
C14_Witness ==
  \E k \in Confirms :
    /\ conf[k].res = Res(404, MsgNotFound)
    /\ Len(store) >= 1
    /\ \A i \in 1..Len(store) : store[i].registrationId # conf[k].registrationId

\* C15: every record is created with isConfirmed = FALSE, and a record whose
\* isConfirmed is TRUE has it TRUE in every later state, under any interleaving of
\* register and confirm requests.
C15_IsConfirmedMonotonic ==
  [][/\ \A i \in 1..Len(store) :
          store[i].isConfirmed => (i <= Len(store') /\ store'[i].isConfirmed)
     /\ \A i \in (Len(store) + 1)..Len(store') : ~store'[i].isConfirmed]_vars

\* a record was confirmed, a later call on it was rejected and a record was
\* inserted after the first
C15_Witness ==
  /\ Len(store) >= 2
  /\ \E i \in 1..Len(store), k \in Confirms :
       /\ store[i].isConfirmed
       /\ conf[k].registrationId = store[i].registrationId
       /\ conf[k].res = Res(400, MsgAlreadyConfirmed)

\* C16: a stored record is never deleted and none of its fields other than
\* isConfirmed ever changes: apart from isConfirmed it is the document its request
\* built; a confirm call changes the isConfirmed of the one record it names only.
C16_RecordsAreKept ==
  /\ [](\A i \in 1..Len(store) :
         \E q \in Registers :
           Saved(q) /\ [store[i] EXCEPT !.isConfirmed = FALSE] = Record(q))
  /\ [][/\ Len(store') >= Len(store)
        /\ \A i \in 1..Len(store) :
             /\ [store'[i] EXCEPT !.isConfirmed = FALSE]
                = [store[i] EXCEPT !.isConfirmed = FALSE]
             /\ store'[i] # store[i]
                => \E k \in Confirms :
                     /\ conf[k].pc = "save" /\ conf'[k].pc = "done"
                     /\ conf[k].registrationId = store[i].registrationId
        /\ Cardinality({i \in 1..Len(store) : store'[i] # store[i]}) <= 1]_vars

\* one of two stored records was confirmed, the other was not, and the
\* spreadsheet was written
C16_Witness ==
  \E i, j \in 1..Len(store), k \in Confirms :
    /\ store[i].isConfirmed /\ ~store[j].isConfirmed
    /\ conf[k].res = Res(200, MsgConfirmed)
    /\ conf[k].registrationId = store[i].registrationId
    /\ xlsx.exists

\* C17 (as claimed): a request rejected with the validators' error list has had no
\* side effects: no record written, no mail sent, no uploaded file stored on disk.
C17_ValidationRejectionNoEffect ==
  \A q \in Registers :
    reg[q].res = Res(400, MsgValidation)
    => /\ ~Saved(q)
       /\ reg[q].mail = "none"
       /\ reg[q].uploads = 0

\* C18 (as claimed): the steps of one request run in the order field validation,
\* document presence/size/type check and hashing, duplicate lookups, insert,
\* notification, export, response, each only after the one before it succeeded:
\* a body that fails validation is rejected by the validators, whatever the files.
C18_StepsInOrder ==
  \A q \in Registers :
    /\ (Done(q) /\ ~reg[q].valid) => reg[q].res = Res(400, MsgValidation)
    /\ Hashed(q) => reg[q].valid
    /\ reg[q].pc \in {"findAadhar", "findCollegeId", "findTeam", "save"}
       => Hashed(q) /\ ~Saved(q)
    /\ Saved(q) => Hashed(q)
    /\ reg[q].pc = "sendMail" => Saved(q) /\ reg[q].mail = "none"
    /\ reg[q].mail # "none" => Saved(q)
    /\ reg[q].pc \in {"generateExcel", "writeFile"} => reg[q].mail = "sent"
    /\ Succeeded(q) => Saved(q) /\ reg[q].mail = "sent"

\* C19: a request whose record was inserted and whose mail was sent is answered
\* 200 whether the spreadsheet export succeeded or failed.
C19_ExportFailureKeeps200 ==
  \A q \in Registers :
    (Done(q) /\ Saved(q) /\ reg[q].mail = "sent") => Succeeded(q)

\* the disk server answered 200 although no export has ever been written
C19_Witness ==
  /\ variant = "disk"
  /\ ~xlsx.exists
  /\ \E q \in Registers : Succeeded(q) /\ Saved(q) /\ reg[q].mail = "sent"

\* request q came after every stored record and shares with none of them the
\* teamName, the email, the mobile, the aadhar or a document hash
Fresh(q) ==
  \A o \in Registers :
    (o < q /\ Saved(o))
    => /\ \A k \in UniqueFields \ {"registrationId"} : reg[o].form[k] # reg[q].form[k]
       /\ {reg[o].aadharImageHash, reg[o].collegeIdHash}
          \cap {reg[q].aadharImageHash, reg[q].collegeIdHash} = {}

\* the records stored under the registrationId of request q
RecordsOf(q) == {i \in 1..Len(store) : store[i].registrationId = reg[q].form.registrationId}

InternalTexts == {MsgReadError, MsgStoreError, MsgE11000}

\* C21 (as claimed): when a store lookup, a hash read or an insert fails
\* unexpectedly the request ends with 500 and a generic message; no response body
\* carries the text of the internal exception.
C21_NoInternalErrorText ==
  \A q \in Registers :
    /\ reg[q].res.msg \notin InternalTexts
    /\ reg[q].res.status = 500 => reg[q].res.msg \in {MsgUnexpected, MsgMailFailed}

\* the request was received with its content spelled out
Seen(q) == reg[q].req # NoReq /\ reg[q].pc # "idle"
Body(q) == reg[q].req[1]
Files(q) == reg[q].req[2]

\* every field of the body but k has the value of ValidBody
OnlyFieldVaries(q, k) == \A j \in DOMAIN ValidBody \ {k} : Body(q)[j] = ValidBody[j]

\* C22 (as claimed): a request with a file over 300,000 bytes is rejected with 400
\* 'File size must be 300KB or less' whatever its other fields and its other file
\* are, and no record is written.
C22_OversizeIsSizeError ==
  \A q \in Registers :
    (Seen(q) /\ \E i \in 1..Len(Files(q)) : ~Files(q)[i].okSize)
    => /\ reg[q].res = Res(400, MsgFileSize)
       /\ ~Saved(q)

\* C23 (as claimed): with everything else valid, a request is accepted exactly
\* when its aadhar consists of exactly 12 decimal digits.
C23_AadharTwelveDigits ==
  \A q \in Registers :
    (Seen(q) /\ OnlyFieldVaries(q, "aadhar") /\ FaultOf(variant, Files(q)) = "none")
    => /\ Hashed(q) <=> ( /\ Body(q).aadhar # Missing
                          /\ Len(Body(q).aadhar) = AadharLength
                          /\ AllDigits(Body(q).aadhar) )
       /\ ~Hashed(q) => reg[q].res = Res(400, MsgValidation)

\* C24 (as claimed): a request in which one of the nine text fields is missing,
\* empty or whitespace only is rejected with a validation error.
C24_BlankTextFieldRejected ==
  \A q \in Registers :
    ( /\ Seen(q) /\ FaultOf(variant, Files(q)) = "none"
      /\ \E k \in TextFields : Trim(toString(Body(q)[k])) = <<>> )
    => reg[q].res = Res(400, MsgValidation)

\* the team sizes of the catalogue that denote an integer between 1 and 4
TeamSizesInRange ==
  {<<"1">>, <<"2">>, <<"3">>, <<"4">>, <<"+", "4">>, <<"0", "4">>}

C26_MissingFileRejected ==
  \A q \in Registers :
    (Seen(q) /\ Len(Files(q)) < NumFileFields)
    => /\ reg[q].res = Res(400, MsgFilesRequired)
       /\ ~Hashed(q) /\ ~Saved(q) /\ reg[q].mail = "none"

\* C26 (amended): a request that lacks one of the two files is rejected with 400 and
\* no hashing, lookup, insert or mail happens for it; the error is 'Both Aadhar
\* card and College ID images are required' when the file it does carry passes
\* the upload middleware and its body passes the validators, and the upload error
\* or the validation error list otherwise.
C26_MissingFileIs400 ==
  \A q \in Registers :
    (Seen(q) /\ Len(Files(q)) < NumFileFields)
    => /\ Done(q) /\ reg[q].res.status = 400
       /\ ~Hashed(q) /\ ~reg[q].existingAadhar /\ ~Saved(q) /\ reg[q].mail = "none"
       /\ store = <<>>
       /\ (UploadError(Files(q)) = "none" /\ validationResult(variant, Body(q)) = {})
          => reg[q].res = Res(400, MsgFilesRequired)
       /\ UploadError(Files(q)) # "none"
          => reg[q].res \in {Res(400, MsgFileSize), Res(400, MsgFileType)}
       /\ (UploadError(Files(q)) = "none" /\ validationResult(variant, Body(q)) # {})
          => reg[q].res = Res(400, MsgValidation)

\* a valid body came with one acceptable file only
C26_Witness ==
  \E q \in Registers :
    /\ Seen(q) /\ Len(Files(q)) = 1 /\ Body(q) = ValidBody
    /\ reg[q].res = Res(400, MsgFilesRequired)

\* C27 (as claimed): with the requests processed one after the other, a request
\* that collides with a stored record is answered with the error of the first
\* colliding lookup: the Aadhar image duplicate, else the college ID duplicate, else
\* the duplicate team.
C27_FirstAxisReported ==
  \A q \in Registers :
    LET A == \E o \in Registers :
               o < q /\ Saved(o) /\ reg[o].aadharImageHash = reg[q].aadharImageHash
        C == \E o \in Registers :
               o < q /\ Saved(o) /\ reg[o].collegeIdHash = reg[q].collegeIdHash
    IN (Hashed(q) /\ Done(q))
       => /\ A => reg[q].res = Res(400, MsgAadharDup)
          /\ (~A /\ C) => reg[q].res = Res(400, MsgCollegeDup)

\* C27 (amended): with the requests processed one after the other, a request is inserted only
\* when none of the three lookups (Aadhar image hash, college ID hash, event and
\* teamName) matches a stored record, and a request that collides on several of
\* them is answered with the first in that order: the Aadhar image duplicate before
\* the college ID duplicate (one combined message in the in-memory variant) before
\* the duplicate team.
C27_FirstCollisionReported ==
  \A q \in Registers :
    LET A == \E o \in Registers :
               o < q /\ Saved(o) /\ reg[o].aadharImageHash = reg[q].aadharImageHash
        C == \E o \in Registers :
               o < q /\ Saved(o) /\ reg[o].collegeIdHash = reg[q].collegeIdHash
        T == \E o \in Registers :
               /\ o < q /\ Saved(o)
               /\ reg[o].form.event = reg[q].form.event
               /\ reg[o].form.teamName = reg[q].form.teamName
    IN (Hashed(q) /\ Done(q))
       => /\ A => reg[q].res \in {Res(400, MsgAadharDup), Res(400, MsgEitherDup)}
          /\ (~A /\ C) => reg[q].res \in {Res(400, MsgCollegeDup), Res(400, MsgEitherDup)}
          /\ (~A /\ ~C /\ T) => reg[q].res = Res(400, MsgTeamDup)
          /\ Saved(q) => (~A /\ ~C /\ ~T)
          /\ variant = "disk" => reg[q].res # Res(400, MsgEitherDup)

\* a request that repeats both documents, the event and the team name of a stored
\* record was answered with the Aadhar image duplicate
C27_Witness ==
  \E p, q \in Registers :
    /\ p < q /\ Saved(p) /\ Done(q)
    /\ reg[p].aadharImageHash = reg[q].aadharImageHash
    /\ reg[p].collegeIdHash = reg[q].collegeIdHash
    /\ reg[p].form.event = reg[q].form.event
    /\ reg[p].form.teamName = reg[q].form.teamName
    /\ reg[q].res = Res(400, MsgAadharDup)

\* C28: a confirmation mail is sent only by a request whose insert succeeded, no
\* two requests send for one registrationId, and the send of a request is
\* attempted once: a request that has attempted its send is past the send, where
\* no send is made, and a request whose send failed has ended.
C28_OneSendPerRecord ==
  \A q \in Registers :
    reg[q].mail # "none"
    => /\ Saved(q)
       /\ reg[q].pc \in {"generateExcel", "writeFile", "done"}
       /\ reg[q].mail = "failed" => Done(q)
       /\ \A p \in Registers \ {q} :
            reg[p].mail # "none" => reg[p].form.registrationId # reg[q].form.registrationId

\* one send failed, another request with the same registrationId was turned away
C28_Witness ==
  \E p, q \in Registers :
    /\ p # q
    /\ reg[p].form.registrationId = reg[q].form.registrationId
    /\ Done(p) /\ reg[p].mail = "failed"
    /\ Done(q) /\ Hashed(q) /\ reg[q].mail = "none"

\* C29: in the disk variant a request whose stored upload cannot be read back for
\* hashing ends with an error response, 500; no lookup and no insert is made for
\* it and no record is written.
C29_ReadErrorSurfaced ==
  \A q \in Registers :
    ( /\ Seen(q) /\ variant = "disk"
      /\ Len(Files(q)) = NumFileFields
      /\ \A i \in 1..Len(Files(q)) : Files(q)[i].okType /\ Files(q)[i].okSize
      /\ \E i \in 1..Len(Files(q)) : ~Files(q)[i].readable
      /\ validationResult(variant, Body(q)) = {} )
    => /\ Done(q)
       /\ reg[q].res.status = 500
       /\ ~Hashed(q) /\ ~reg[q].existingAadhar /\ ~Saved(q) /\ reg[q].mail = "none"
       /\ store = <<>>

\* the second of two accepted files could not be read
C29_Witness ==
  \E q \in Registers :
    /\ Seen(q) /\ variant = "disk" /\ Body(q) = ValidBody
    /\ Len(Files(q)) = NumFileFields
    /\ Files(q)[1] = [okType |-> TRUE, okSize |-> TRUE, readable |-> TRUE]
    /\ Files(q)[2] = [okType |-> TRUE, okSize |-> TRUE, readable |-> FALSE]
    /\ reg[q].res.status = 500

\* C30: provided every awaited store, mail and export call returns or fails, every
\* register request and every confirm request that was received is eventually
\* answered, and it is answered once: a response is recorded exactly when the
\* handler has finished, and a finished request never changes again.
C30_EveryRequestAnswered ==
  /\ \A q \in Registers : (reg[q].pc # "idle") ~> (reg[q].pc = "done")
  /\ \A k \in Confirms : (conf[k].pc # "idle") ~> (conf[k].pc = "done")
  /\ [](\A q \in Registers : (reg[q].res # NoRes) <=> (reg[q].pc = "done"))
  /\ [](\A k \in Confirms : (conf[k].res # NoRes) <=> (conf[k].pc = "done"))
  /\ [][/\ \A q \in Registers : reg[q].pc = "done" => reg'[q] = reg[q]
        /\ \A k \in Confirms : conf[k].pc = "done" => conf'[k] = conf[k]]_vars

\* a request completed, one was rejected by a failing store call, and a
\* confirmation was answered
C30_Witness ==
  /\ \E q \in Registers : Done(q) /\ Saved(q) /\ reg[q].res.status = 200
  /\ \E q \in Registers : Done(q) /\ reg[q].res.msg = MsgStoreError
  /\ \E k \in Confirms : conf[k].pc = "done" /\ conf[k].res.status = 200

C32_ExportProjectsStore ==
  [][/\ \A q \in Registers :
          (reg[q].pc = "writeFile" /\ xlsx' # xlsx) => xlsx'.rows = reg[q].registrations
     /\ (variant = "memory" /\ xlsx' # xlsx)
          => xlsx'.rows = [i \in 1..Len(store) |-> store[i].registrationId]]_vars

\* C33 (as claimed): in the disk variant, when an export rewrites the file of an
\* earlier export and no register request is in flight any more, every request
\* that stored a record having gone on to its export, the file has a row for every
\* stored record.
C33_FileCoversStore ==
  [][( /\ variant = "disk" /\ xlsx.exists /\ xlsx' # xlsx
       /\ \A q \in Registers :
            /\ reg'[q].pc \in {"idle", "done"}
            /\ reg'[q].saved => reg'[q].mail = "sent" )
     => \A i \in 1..Len(store') :
          \E j \in 1..Len(xlsx'.rows) : xlsx'.rows[j] = store'[i].registrationId]_vars

\* C34 (as claimed): in the disk variant the two files of a request are stored
\* under different paths, no two requests share a path, and the hashes of a
\* request are those of the files it uploaded in the two slots.
C34_PathsDistinct ==
  \A q \in Registers :
    (variant = "disk" /\ Uploaded(q))
    => /\ PartOf(q, "aadharImage").path # PartOf(q, "collegeId").path
       /\ \A p \in Registers \ {q} :
            Uploaded(p) => \A m, n \in 1..NumFileFields :
                             PartOf(p, FileFields[m]).path # PartOf(q, FileFields[n]).path
       /\ Hashed(q)
          => /\ reg[q].aadharImageHash = calculateFileHash(reg[q].form.aadharImage)
             /\ reg[q].collegeIdHash = calculateFileHash(reg[q].form.collegeId)

\* C35: once a request's record was persisted and its notification failed, every
\* later submission of the same form (same registrationId, fields and files) that
\* reaches the lookups is answered with a duplicate rejection; no mail is attempted
\* for it and it never gets the 200 response.
C35_ResubmissionIsDuplicate ==
  \A p, q \in Registers :
    (/\ p < q
     /\ Saved(p) /\ reg[p].mail = "failed"
     /\ reg[q].pc # "idle" /\ reg[q].valid
     /\ reg[q].form = reg[p].form)
    => /\ reg[q].mail = "none"
       /\ ~Saved(q)
       /\ reg[q].res.status # 200
       /\ (Done(q) /\ Hashed(q)) => reg[q].res \in DuplicateDocument

C35_Witness ==
  \E p, q \in Registers :
    /\ p < q
    /\ Saved(p) /\ reg[p].mail = "failed" /\ Done(p)
    /\ Hashed(q) /\ reg[q].form = reg[p].form
    /\ Done(q) /\ reg[q].res \in DuplicateDocument
    /\ \E i \in 1..Len(store) : store[i] = Record(p)

\* the `data` object of the 200 response: the request variables as the handler
\* destructured them from req.body, and the createdAt of the document it built
ResponseData(r) ==
  [registrationId |-> r.form.registrationId, event |-> r.form.event,
   teamName |-> r.form.teamName, email |-> r.form.email, mobile |-> r.form.mobile,
   aadhar |-> r.form.aadhar,
   teamSize |-> IF r.req = NoReq THEN ValidBody.teamSize ELSE r.req[1].teamSize,
   createdAt |-> r.createdAt]

\* the text of a stored number; the team sizes a record can hold have one digit
NumberToString(n) ==
  IF n.isNaN \/ n.fraction \/ n.int \notin 0..9 THEN <<>>
  ELSE <<(<<"0", "1", "2", "3", "4", "5", "6", "7", "8", "9">>)[n.int + 1]>>

\* the stored record agrees with the echoed data on every field but teamSize
EchoedFieldsStored(d, data) ==
  /\ d.registrationId = data.registrationId
  /\ d.event = data.event /\ d.teamName = data.teamName
  /\ d.email = data.email /\ d.mobile = data.mobile /\ d.aadhar = data.aadhar
  /\ d.createdAt = data.createdAt

\* C36 (as claimed): whenever a register request is answered with 200, the store
\* holds a record with the echoed registrationId whose field values equal the
\* echoed data, and the notification for it was sent before the response.
C36_EchoEqualsRecord ==
  \A q \in Registers :
    Succeeded(q) =>
      /\ reg[q].mail = "sent"
      /\ \E i \in 1..Len(store) :
           /\ EchoedFieldsStored(store[i], ResponseData(reg[q]))
           /\ NumberToString(store[i].teamSize) = ResponseData(reg[q]).teamSize

\* C36 (amended): whenever a register request is answered with 200, the store
\* holds a record with the echoed registrationId whose text fields and createdAt
\* equal the echoed data and whose teamSize is the number that the echoed teamSize
\* string denotes, and the notification for it was sent before the response.
C36_EchoDenotesRecord ==
  \A q \in Registers :
    Succeeded(q) =>
      /\ reg[q].mail = "sent"
      /\ \E i \in 1..Len(store) :
           /\ EchoedFieldsStored(store[i], ResponseData(reg[q]))
           /\ ~store[i].teamSize.isNaN /\ ~store[i].teamSize.fraction
           /\ store[i].teamSize.int = ParseInt(Unsigned(ResponseData(reg[q]).teamSize))

\* a request with team size '+4' got the 200 response echoing '+4' while its
\* record holds the number 4
C36_Witness ==
  \E q \in Registers :
    /\ Succeeded(q) /\ reg[q].mail = "sent"
    /\ ResponseData(reg[q]).teamSize = <<"+", "4">>
    /\ \E i \in 1..Len(store) :
         /\ EchoedFieldsStored(store[i], ResponseData(reg[q]))
         /\ store[i].teamSize = Num(4, FALSE)

\* the file slots of formData while the form is filled in, and of the request
\* once it is sent
FormFiles == reg[1].req[2]

\* C37 (as claimed): after any sequence of file selections and drops each file
\* slot of formData is null or a file of at most 300,000 bytes, and a request is
\* sent only with validateForm finding no error, both files present and within
\* 300,000 bytes.
C37_SlotsNullOrSmallFile ==
  /\ Editing =>
       \A i \in 1..NumFileFields :
         FormFiles[i] = Null \/ (FormFiles[i] \in BrowserFiles /\ FormFiles[i].size <= 300000)
  /\ Seen(1) =>
       /\ validateForm(reg[1].req) = {}
       /\ \A i \in 1..NumFileFields :
            FormFiles[i] \in BrowserFiles /\ FormFiles[i].size <= 300000

\* C37 (amended): after any sequence of file selections and drops each file slot
\* of formData is null, undefined (a selection that was cancelled) or a file of
\* at most 300,000 bytes, and a request is sent only with validateForm finding no
\* error, both files present and within 300,000 bytes.
C37_SlotsEmptyOrSmallFile ==
  /\ Editing =>
       \A i \in 1..NumFileFields :
         \/ FormFiles[i] \in {Null, Undefined}
         \/ FormFiles[i] \in BrowserFiles /\ FormFiles[i].size <= 300000
  /\ Seen(1) =>
       /\ validateForm(reg[1].req) = {}
       /\ \A i \in 1..NumFileFields :
            FormFiles[i] \in BrowserFiles /\ FormFiles[i].size <= 300000

\* a form with a file of exactly 300,000 bytes was sent and the upload accepted it
C37_Witness ==
  /\ Seen(1) /\ Hashed(1)
  /\ \E i \in 1..NumFileFields : FormFiles[i].size = 300000

====
